---- MODULE Spec2Model ----
(***************************************************************************)
(* Model of the streaming word-wrap Scanner of package wordwrap            *)
(* (src/wordwrap.go, runeBuffer revision) and of the loop of               *)
(* TestReadLine (src/wordwrap_test.go) that drives it.                     *)
(*                                                                         *)
(* A rune is a one-character string, a text is a sequence of runes.        *)
(* Every rune of the model is one byte wide, so byte counts and rune       *)
(* counts coincide; the runeBuffer still keeps its cached count apart      *)
(* from its content, as the source does.                                   *)
(***************************************************************************)
EXTENDS Naturals, Integers, Sequences, FiniteSets, TLC

\* ------------------------------------------------------------------ bounds
MaxLen == 5          \* longest input text, in runes
MaxWidth == 4        \* largest line limit given to NewScanner
MaxPrefixLen == 1    \* longest prefix given to SetPrefix
MaxTabWidth == 2     \* largest tab width given to SetTabWidth
MaxRoom == 2         \* most bytes a failing writer accepts before it fails
MaxDrainLen == 4     \* longest input text of the termination check

\* ------------------------------------------------------------------ runes
SP == " "
TAB == "\t"
NL == "\n"
WordRunes == {"a"}
SpaceRunes == {SP, TAB, NL}
Runes == WordRunes \cup SpaceRunes
PrefixRune == "-"
NoRune == ""          \* the zero rune a failed ReadRune returns

Nil == "nil"
EOF == "EOF"
ErrRead == "ErrRead"  \* an error of the reader other than io.EOF
ErrWrite == "ErrWrite" \* an error of the writer WriteTo is given

\* A reader is the sequence of the outcomes of its reads: runes, and FailMark
\* where ReadRune returns ErrRead; past the last outcome it returns io.EOF.
FailMark == "FAIL"

IsSpace(ch) == ch \in SpaceRunes

Repeat(ch, count) == [i \in 1..count |-> ch]

RuneCount(str) == Len(str)

\* ------------------------------------------------------------- runeBuffer
EmptyBuffer == [buf |-> <<>>, runeCount |-> 0]

Count(b) == b.runeCount

String(b) == b.buf

WriteRune(b, r) == [buf |-> Append(b.buf, r), runeCount |-> b.runeCount + 1]

WriteString(b, str) ==
    [buf |-> b.buf \o str, runeCount |-> b.runeCount + RuneCount(str)]

\* b.WriteTo(w): the pair of buffers after the transfer.
BufWriteTo(b, w) ==
    [src |-> [buf |-> <<>>, runeCount |-> 0],
     dst |-> [buf |-> w.buf \o b.buf, runeCount |-> w.runeCount + b.runeCount]]

Reset(b) == [buf |-> <<>>, runeCount |-> 0]

\* ---------------------------------------------------------------- Scanner
DefaultTabWidth == 4

NewScanner(r, limit) ==
    [r |-> r, limit |-> limit, prefix |-> <<>>, tabWidth |-> DefaultTabWidth,
     err |-> Nil, line |-> EmptyBuffer, word |-> EmptyBuffer,
     space |-> EmptyBuffer, needNewline |-> FALSE, skipNextWS |-> FALSE]

SetPrefix(sc, prefix) == [sc EXCEPT !.prefix = prefix]

SetTabWidth(sc, width) == [sc EXCEPT !.tabWidth = width]

\* flushWord without the test for a pending word: the pending whitespace is
\* committed on its own.
flushWord_NoWordTest(sc) ==
    LET l1 == IF Count(sc.line) = 0
              THEN WriteString(sc.line, sc.prefix)
              ELSE sc.line
        t1 == BufWriteTo(sc.space, l1)
        t2 == BufWriteTo(sc.word, t1.dst)
    IN [sc EXCEPT !.line = t2.dst, !.space = t1.src, !.word = t2.src]

\* flushWord without the test for an empty line: the prefix is written before
\* every word.
flushWord_PrefixEachWord(sc) ==
    IF Count(sc.word) > 0
    THEN LET l1 == WriteString(sc.line, sc.prefix)
             t1 == BufWriteTo(sc.space, l1)
             t2 == BufWriteTo(sc.word, t1.dst)
         IN [sc EXCEPT !.line = t2.dst, !.space = t1.src, !.word = t2.src]
    ELSE sc

flushWord(sc) ==
    IF Count(sc.word) > 0
    THEN LET l1 == IF Count(sc.line) = 0
                   THEN WriteString(sc.line, sc.prefix)
                   ELSE sc.line
             t1 == BufWriteTo(sc.space, l1)
             t2 == BufWriteTo(sc.word, t1.dst)
         IN [sc EXCEPT !.line = t2.dst, !.space = t1.src, !.word = t2.src]
    ELSE sc

peekRune(r) ==
    IF r = <<>>
    THEN [ch |-> NoRune, size |-> 0, err |-> EOF]
    ELSE IF Head(r) = FailMark
    THEN [ch |-> NoRune, size |-> 0, err |-> ErrRead]
    ELSE [ch |-> Head(r), size |-> 1, err |-> Nil]

\* The number of spaces a tab is replaced by (wordwrap.go 338-341).
tabCount(sc) ==
    IF sc.tabWidth # 0
    THEN sc.tabWidth - (Count(sc.line) % sc.tabWidth)
    ELSE 0

\* commitLine with the width test off by one: the line is committed one rune
\* before the limit.
commitLine_OneEarly(sc) ==
    IF Count(sc.line) + Count(sc.word) + Count(sc.space) + 1 >= sc.limit
    THEN LET p == peekRune(sc.r)
             f == IF Count(sc.word) = sc.limit \/ IsSpace(p.ch) \/ p.size = 0
                  THEN flushWord(sc)
                  ELSE sc
             n == IF p.size # 0 /\ p.ch # NL /\ Count(f.space) < f.limit
                  THEN [f EXCEPT !.needNewline = TRUE]
                  ELSE f
         IN IF p.err # Nil /\ p.err # EOF
            THEN [sc EXCEPT !.err = p.err]
            ELSE [n EXCEPT !.skipNextWS = TRUE, !.space = Reset(n.space)]
    ELSE sc

\* commitLine without the reset of the pending whitespace.
commitLine_KeepsSpace(sc) ==
    IF Count(sc.line) + Count(sc.word) + Count(sc.space) >= sc.limit
    THEN LET p == peekRune(sc.r)
             f == IF Count(sc.word) = sc.limit \/ IsSpace(p.ch) \/ p.size = 0
                  THEN flushWord(sc)
                  ELSE sc
             n == IF p.size # 0 /\ p.ch # NL /\ Count(f.space) < f.limit
                  THEN [f EXCEPT !.needNewline = TRUE]
                  ELSE f
         IN IF p.err # Nil /\ p.err # EOF
            THEN [sc EXCEPT !.err = p.err]
            ELSE [n EXCEPT !.skipNextWS = TRUE]
    ELSE sc

\* commitLine taking a failed look-ahead for the end of the input.
commitLine_PeekErrorAsEOF(sc) ==
    IF Count(sc.line) + Count(sc.word) + Count(sc.space) >= sc.limit
    THEN LET p == peekRune(sc.r)
             f == IF Count(sc.word) = sc.limit \/ IsSpace(p.ch) \/ p.size = 0
                  THEN flushWord(sc)
                  ELSE sc
             n == IF p.size # 0 /\ p.ch # NL /\ Count(f.space) < f.limit
                  THEN [f EXCEPT !.needNewline = TRUE]
                  ELSE f
         IN [n EXCEPT !.skipNextWS = TRUE, !.space = Reset(n.space)]
    ELSE sc

\* "Commit the line if we've reached the maximum width" (wordwrap.go 360-384).
\* A failed look-ahead leaves the scanner with the error stored and nothing
\* else changed; ReadLine then returns it.
commitLine(sc) ==
    IF Count(sc.line) + Count(sc.word) + Count(sc.space) >= sc.limit
    THEN LET p == peekRune(sc.r)
             f == IF Count(sc.word) = sc.limit \/ IsSpace(p.ch) \/ p.size = 0
                  THEN flushWord(sc)
                  ELSE sc
             n == IF p.size # 0 /\ p.ch # NL /\ Count(f.space) < f.limit
                  THEN [f EXCEPT !.needNewline = TRUE]
                  ELSE f
         IN IF p.err # Nil /\ p.err # EOF
            THEN [sc EXCEPT !.err = p.err]
            ELSE [n EXCEPT !.skipNextWS = TRUE, !.space = Reset(n.space)]
    ELSE sc

\* scanRune that does not take the whitespace it skips off the reader.
scanRune_SkipKeepsRune(sc) ==
    LET char == Head(sc.r)
        rd == [sc EXCEPT !.r = Tail(sc.r)]
    IN IF char = FailMark
       THEN [s |-> [sc EXCEPT !.err = ErrRead], returns |-> TRUE,
             line |-> <<>>, err |-> ErrRead, checks |-> FALSE]
       ELSE IF IsSpace(char)
       THEN LET f == flushWord(rd)
            IN IF char = NL
               THEN [s |-> [f EXCEPT !.skipNextWS = FALSE,
                                     !.line = Reset(f.line),
                                     !.space = Reset(f.space)],
                     returns |-> TRUE, line |-> String(f.line),
                     err |-> Nil, checks |-> FALSE]
               ELSE IF f.skipNextWS
               THEN [s |-> [f EXCEPT !.r = sc.r], returns |-> FALSE,
                     line |-> <<>>, err |-> Nil, checks |-> FALSE]
               ELSE IF char = TAB
               THEN [s |-> [f EXCEPT !.space =
                              WriteString(f.space, Repeat(SP, tabCount(f)))],
                     returns |-> FALSE, line |-> <<>>,
                     err |-> Nil, checks |-> TRUE]
               ELSE [s |-> [f EXCEPT !.space = WriteRune(f.space, char)],
                     returns |-> FALSE, line |-> <<>>,
                     err |-> Nil, checks |-> TRUE]
       ELSE LET w == [rd EXCEPT !.word = WriteRune(rd.word, char),
                                !.skipNextWS = FALSE]
            IN IF w.needNewline
               THEN [s |-> [w EXCEPT !.needNewline = FALSE,
                                     !.line = Reset(w.line)],
                     returns |-> TRUE, line |-> String(w.line),
                     err |-> Nil, checks |-> FALSE]
               ELSE [s |-> w, returns |-> FALSE, line |-> <<>>,
                     err |-> Nil, checks |-> TRUE]

\* scanRune that starts the next line with the prefix when it returns a line
\* cut at the limit, instead of leaving the prefix to flushWord.
scanRune_EagerPrefix(sc) ==
    LET char == Head(sc.r)
        rd == [sc EXCEPT !.r = Tail(sc.r)]
    IN IF char = FailMark
       THEN [s |-> [sc EXCEPT !.err = ErrRead], returns |-> TRUE,
             line |-> <<>>, err |-> ErrRead, checks |-> FALSE]
       ELSE IF IsSpace(char)
       THEN LET f == flushWord(rd)
            IN IF char = NL
               THEN [s |-> [f EXCEPT !.skipNextWS = FALSE,
                                     !.line = Reset(f.line),
                                     !.space = Reset(f.space)],
                     returns |-> TRUE, line |-> String(f.line),
                     err |-> Nil, checks |-> FALSE]
               ELSE IF f.skipNextWS
               THEN [s |-> f, returns |-> FALSE, line |-> <<>>,
                     err |-> Nil, checks |-> FALSE]
               ELSE IF char = TAB
               THEN [s |-> [f EXCEPT !.space =
                              WriteString(f.space, Repeat(SP, tabCount(f)))],
                     returns |-> FALSE, line |-> <<>>,
                     err |-> Nil, checks |-> TRUE]
               ELSE [s |-> [f EXCEPT !.space = WriteRune(f.space, char)],
                     returns |-> FALSE, line |-> <<>>,
                     err |-> Nil, checks |-> TRUE]
       ELSE LET w == [rd EXCEPT !.word = WriteRune(rd.word, char),
                                !.skipNextWS = FALSE]
            IN IF w.needNewline
               THEN [s |-> [w EXCEPT !.needNewline = FALSE,
                                     !.line = WriteString(Reset(w.line),
                                                          w.prefix)],
                     returns |-> TRUE, line |-> String(w.line),
                     err |-> Nil, checks |-> FALSE]
               ELSE [s |-> w, returns |-> FALSE, line |-> <<>>,
                     err |-> Nil, checks |-> TRUE]

\* The sum the width test of ReadLine compares with the limit.
pending(sc) == Count(sc.line) + Count(sc.word) + Count(sc.space)

\* The first part of a pass of the for loop of ReadLine (wordwrap.go 309-358):
\* a read and the handling of its rune.  checks tells that the pass goes on to
\* the width test; otherwise it returns (returns) or continues the loop.
scanRune(sc) ==
    LET char == Head(sc.r)
        rd == [sc EXCEPT !.r = Tail(sc.r)]
    IN IF char = FailMark
       THEN [s |-> [sc EXCEPT !.err = ErrRead], returns |-> TRUE,
             line |-> <<>>, err |-> ErrRead, checks |-> FALSE]
       ELSE IF IsSpace(char)
       THEN LET f == flushWord(rd)
            IN IF char = NL
               THEN [s |-> [f EXCEPT !.skipNextWS = FALSE,
                                     !.line = Reset(f.line),
                                     !.space = Reset(f.space)],
                     returns |-> TRUE, line |-> String(f.line),
                     err |-> Nil, checks |-> FALSE]
               ELSE IF f.skipNextWS
               THEN [s |-> f, returns |-> FALSE, line |-> <<>>,
                     err |-> Nil, checks |-> FALSE]
               ELSE IF char = TAB
               THEN [s |-> [f EXCEPT !.space =
                              WriteString(f.space, Repeat(SP, tabCount(f)))],
                     returns |-> FALSE, line |-> <<>>,
                     err |-> Nil, checks |-> TRUE]
               ELSE [s |-> [f EXCEPT !.space = WriteRune(f.space, char)],
                     returns |-> FALSE, line |-> <<>>,
                     err |-> Nil, checks |-> TRUE]
       ELSE LET w == [rd EXCEPT !.word = WriteRune(rd.word, char),
                                !.skipNextWS = FALSE]
            IN IF w.needNewline
               THEN [s |-> [w EXCEPT !.needNewline = FALSE,
                                     !.line = Reset(w.line)],
                     returns |-> TRUE, line |-> String(w.line),
                     err |-> Nil, checks |-> FALSE]
               ELSE [s |-> w, returns |-> FALSE, line |-> <<>>,
                     err |-> Nil, checks |-> TRUE]

\* One pass of the for loop of ReadLine with a read outcome available: the
\* scanner afterwards, whether ReadLine returns in this pass, and the line and
\* the error returned.
loopBody(sc) ==
    LET p == scanRune(sc)
    IN IF p.checks
       THEN LET c == commitLine(p.s)
            IN IF c.err # Nil
               THEN [s |-> c, returns |-> TRUE, line |-> <<>>, err |-> c.err]
               ELSE [s |-> c, returns |-> FALSE, line |-> <<>>, err |-> Nil]
       ELSE [s |-> p.s, returns |-> p.returns, line |-> p.line, err |-> p.err]

\* atEOF without the flush of the pending word.
atEOF_NoFlush(sc) ==
    [s |-> [sc EXCEPT !.line = Reset(sc.line), !.err = EOF],
     line |-> String(sc.line), err |-> Nil]

\* atEOF returning the stored io.EOF together with the last line.
atEOF_ReturnsEOF(sc) ==
    LET f == flushWord(sc)
    IN [s |-> [f EXCEPT !.line = Reset(f.line), !.err = EOF],
        line |-> String(f.line), err |-> EOF]

\* The part of ReadLine after the loop, reached on io.EOF (wordwrap.go 387-395).
atEOF(sc) ==
    LET f == flushWord(sc)
    IN [s |-> [f EXCEPT !.line = Reset(f.line), !.err = EOF],
        line |-> String(f.line), err |-> Nil]

\* terminal without the stored error: every call reads the source again.
terminal_Never(sc) == FALSE

\* The test ReadLine opens with: the scanner has stored an error or io.EOF.
terminal(sc) == sc.err # Nil

\* A whole call of ReadLine as a function of the scanner.
RECURSIVE readLoop(_)
readLoop(sc) ==
    IF sc.r = <<>>
    THEN atEOF(sc)
    ELSE LET b == loopBody(sc)
         IN IF b.returns
            THEN [s |-> b.s, line |-> b.line, err |-> b.err]
            ELSE readLoop(b.s)

ReadLine(sc) ==
    IF terminal(sc)
    THEN [s |-> sc, line |-> <<>>, err |-> sc.err]
    ELSE readLoop(sc)

\* The lines collected by the loop of TestReadLine (wordwrap_test.go 200-209).
RECURSIVE ReadLines(_)
ReadLines(sc) ==
    LET c == ReadLine(sc)
    IN IF c.err # Nil THEN <<>> ELSE <<c.line>> \o ReadLines(c.s)

\* ---------------------------------------------------------------- WriteTo
Min(a, b) == IF a <= b THEN a ELSE b

\* A writer: the bytes it has taken and the number of calls of Write; one
\* that fails takes room more bytes and then fails, reporting the bytes of the
\* failed write it still took.
NewWriter(fails, room) ==
    [buf |-> <<>>, fails |-> fails, room |-> room, writes |-> 0]

Write(w, p) ==
    IF w.fails
    THEN LET k == Min(Len(p), w.room)
         IN [w |-> [w EXCEPT !.buf = w.buf \o SubSeq(p, 1, k),
                             !.room = w.room - k,
                             !.writes = w.writes + 1],
             n |-> k,
             err |-> IF k < Len(p) THEN ErrWrite ELSE Nil]
    ELSE [w |-> [w EXCEPT !.buf = w.buf \o p, !.writes = w.writes + 1],
          n |-> Len(p), err |-> Nil]

\* The locals of a call of WriteTo on entry (wordwrap.go 400-402); pc is
\* "call" before a call of ReadLine, "wait" during it, "done" after return.
EnterWriteTo(w) ==
    [pc |-> "call", w |-> w, n |-> 0, err |-> Nil, firstLine |-> TRUE]

\* No call of WriteTo: ReadLine is called by the test itself.
NoWriteTo ==
    [pc |-> "none", w |-> NewWriter(FALSE, 0), n |-> 0, err |-> Nil,
     firstLine |-> TRUE]

\* writeToPass with the newline written after each line, not before the
\* lines after the first.
writeToPass_NewlineAfter(st, r) ==
    IF r.err = EOF
    THEN [st EXCEPT !.pc = "done", !.err = Nil]
    ELSE IF r.err # Nil
    THEN [st EXCEPT !.pc = "done", !.err = r.err]
    ELSE LET w1 == Write(st.w, r.line)
             n1 == st.n + w1.n
         IN IF w1.err # Nil
            THEN [st EXCEPT !.pc = "done", !.err = w1.err, !.w = w1.w, !.n = n1]
            ELSE LET w2 == Write(w1.w, <<NL>>)
                     n2 == n1 + w2.n
                 IN IF w2.err # Nil
                    THEN [st EXCEPT !.pc = "done", !.err = w2.err,
                                    !.w = w2.w, !.n = n2]
                    ELSE [st EXCEPT !.pc = "call", !.w = w2.w, !.n = n2,
                                    !.firstLine = FALSE]

\* writeToPass that leaves the bytes of a failed write out of n.
writeToPass_DropsPartial(st, r) ==
    IF r.err = EOF
    THEN [st EXCEPT !.pc = "done", !.err = Nil]
    ELSE IF r.err # Nil
    THEN [st EXCEPT !.pc = "done", !.err = r.err]
    ELSE LET w1 == IF ~st.firstLine
                   THEN Write(st.w, <<NL>>)
                   ELSE [w |-> st.w, n |-> 0, err |-> Nil]
         IN IF w1.err # Nil
            THEN [st EXCEPT !.pc = "done", !.err = w1.err, !.w = w1.w]
            ELSE LET w2 == Write(w1.w, r.line)
                 IN IF w2.err # Nil
                    THEN [st EXCEPT !.pc = "done", !.err = w2.err,
                                    !.w = w2.w, !.n = st.n + w1.n]
                    ELSE [st EXCEPT !.pc = "call", !.w = w2.w,
                                    !.n = st.n + w1.n + w2.n,
                                    !.firstLine = FALSE]

\* The rest of a pass of the loop of WriteTo once ReadLine has returned r
\* (wordwrap.go 405-425).
writeToPass(st, r) ==
    IF r.err = EOF
    THEN [st EXCEPT !.pc = "done", !.err = Nil]
    ELSE IF r.err # Nil
    THEN [st EXCEPT !.pc = "done", !.err = r.err]
    ELSE LET w1 == IF ~st.firstLine
                   THEN Write(st.w, <<NL>>)
                   ELSE [w |-> st.w, n |-> 0, err |-> Nil]
             n1 == st.n + w1.n
         IN IF w1.err # Nil
            THEN [st EXCEPT !.pc = "done", !.err = w1.err, !.w = w1.w, !.n = n1]
            ELSE LET w2 == Write(w1.w, r.line)
                     n2 == n1 + w2.n
                 IN IF w2.err # Nil
                    THEN [st EXCEPT !.pc = "done", !.err = w2.err,
                                    !.w = w2.w, !.n = n2]
                    ELSE [st EXCEPT !.pc = "call", !.w = w2.w, !.n = n2,
                                    !.firstLine = FALSE]

\* ------------------------------------------------------------------ state
VARIABLES
    s,       \* the Scanner
    pc,      \* "idle": between calls of ReadLine; "loop": inside its for loop
    lines,   \* the lines ReadLine has returned with a nil error, in order
    ret,     \* what the latest call of ReadLine returned
    text,    \* the text the reader was created over
    wt       \* the call of WriteTo in progress: its locals and its writer

vars == <<s, pc, lines, ret, text, wt>>

NoRet == [line |-> <<>>, err |-> "none"]

SeqsUpTo(S, n) == UNION {[1..k -> S] : k \in 0..n}

Texts == SeqsUpTo(Runes, MaxLen)
Widths == 1..MaxWidth
Prefixes == SeqsUpTo({PrefixRune}, MaxPrefixLen)
OtherPrefixRune == "+"
PrefixRunes == {PrefixRune, OtherPrefixRune}
\* The prefixes given to SetPrefix between calls of ReadLine.
NewPrefixes ==
    {<<>>} \cup UNION {{[i \in 1..k |-> c] : c \in PrefixRunes} : k \in 1..MaxPrefixLen}
TabWidths == 0..MaxTabWidth

Init ==
    /\ text \in Texts
    /\ \E limit \in Widths, prefix \in Prefixes, width \in TabWidths :
         s = SetTabWidth(SetPrefix(NewScanner(text, limit), prefix), width)
    /\ pc = "idle"
    /\ lines = <<>>
    /\ ret = NoRet
    /\ wt = NoWriteTo

\* ReadLine is entered: a terminal scanner returns its stored error at once,
\* any other enters the loop.
readLineEnter ==
    /\ pc = "idle"
    /\ IF terminal(s)
       THEN /\ ret' = [line |-> <<>>, err |-> s.err]
            /\ UNCHANGED <<s, pc, lines>>
       ELSE /\ pc' = "loop"
            /\ UNCHANGED <<s, lines, ret>>
    /\ UNCHANGED text

\* The test calls ReadLine.
ReadLineCall ==
    /\ wt.pc = "none"
    /\ readLineEnter
    /\ UNCHANGED wt

\* One pass of the loop that reads a rune.
ReadLineLoop ==
    /\ pc = "loop"
    /\ s.r # <<>>
    /\ LET b == loopBody(s)
       IN /\ s' = b.s
          /\ IF b.returns
             THEN /\ pc' = "idle"
                  /\ ret' = [line |-> b.line, err |-> b.err]
                  /\ lines' = IF b.err = Nil THEN Append(lines, b.line)
                                             ELSE lines
             ELSE UNCHANGED <<pc, ret, lines>>
    /\ UNCHANGED <<text, wt>>

\* The read reports io.EOF: the loop is left and the last line returned.
ReadLineEOF ==
    /\ pc = "loop"
    /\ s.r = <<>>
    /\ LET e == atEOF(s)
       IN /\ s' = e.s
          /\ ret' = [line |-> e.line, err |-> e.err]
          /\ lines' = IF e.err = Nil THEN Append(lines, e.line) ELSE lines
    /\ pc' = "idle"
    /\ UNCHANGED <<text, wt>>

Next == ReadLineCall \/ ReadLineLoop \/ ReadLineEOF

Spec == Init /\ [][Next]_vars

\* WriteTo calls ReadLine (wordwrap.go 404).
WriteToReadLine ==
    /\ wt.pc = "call"
    /\ readLineEnter
    /\ wt' = [wt EXCEPT !.pc = "wait"]

\* ReadLine has returned to WriteTo, which finishes the pass of its loop.
WriteToWrite ==
    /\ wt.pc = "wait"
    /\ pc = "idle"
    /\ wt' = writeToPass(wt, ret)
    /\ UNCHANGED <<s, pc, lines, ret, text>>

NextWriteTo == WriteToReadLine \/ ReadLineLoop \/ ReadLineEOF \/ WriteToWrite

\* SetPrefix is called between two calls of ReadLine.
SetPrefixCall ==
    /\ pc = "idle"
    /\ wt.pc = "none"
    /\ \E prefix \in NewPrefixes :
         /\ prefix # s.prefix
         /\ s' = SetPrefix(s, prefix)
    /\ UNCHANGED <<pc, lines, ret, text, wt>>

\* The tab widths given to SetTabWidth between calls of ReadLine.
NewTabWidths == TabWidths \cup {DefaultTabWidth}

\* SetTabWidth is called between two calls of ReadLine.
SetTabWidthCall ==
    /\ pc = "idle"
    /\ wt.pc = "none"
    /\ \E width \in NewTabWidths :
         /\ width # s.tabWidth
         /\ s' = SetTabWidth(s, width)
    /\ UNCHANGED <<pc, lines, ret, text, wt>>

NextPrefix ==
    ReadLineCall \/ ReadLineLoop \/ ReadLineEOF \/ SetPrefixCall \/ SetTabWidthCall

\* A reader that fails: the texts of Spec, and texts cut short by a failing
\* read.
FailTexts == Texts \cup {t \o <<FailMark>> : t \in SeqsUpTo(Runes, MaxLen - 1)}

InitFail ==
    /\ text \in FailTexts
    /\ \E limit \in Widths, prefix \in Prefixes, width \in TabWidths :
         s = SetTabWidth(SetPrefix(NewScanner(text, limit), prefix), width)
    /\ pc = "idle"
    /\ lines = <<>>
    /\ ret = NoRet
    /\ wt = NoWriteTo

SpecFail == InitFail /\ [][Next]_vars

\* A scanner as NewScanner makes it, its prefix and its tab width set between
\* calls of ReadLine.
InitPrefix ==
    /\ text \in Texts
    /\ \E limit \in Widths : s = NewScanner(text, limit)
    /\ pc = "idle"
    /\ lines = <<>>
    /\ ret = NoRet
    /\ wt = NoWriteTo

SpecPrefix == InitPrefix /\ [][NextPrefix]_vars

\* Texts of two different word runes, read with the empty prefix.
OtherWordRune == "b"
ContentTexts == SeqsUpTo(Runes \cup {OtherWordRune}, MaxLen)

InitContent ==
    /\ text \in ContentTexts
    /\ \E limit \in Widths, width \in TabWidths :
         s = SetTabWidth(NewScanner(text, limit), width)
    /\ pc = "idle"
    /\ lines = <<>>
    /\ ret = NoRet
    /\ wt = NoWriteTo

SpecContent == InitContent /\ [][Next]_vars

\* TestWriteTo: a scanner with a prefix set, drained by WriteTo into a writer
\* that may fail.
Writers == {NewWriter(FALSE, 0)} \cup {NewWriter(TRUE, k) : k \in 0..MaxRoom}

InitWriteTo ==
    /\ text \in FailTexts
    /\ \E limit \in Widths, prefix \in Prefixes :
         s = SetPrefix(NewScanner(text, limit), prefix)
    /\ pc = "idle"
    /\ lines = <<>>
    /\ ret = NoRet
    /\ \E w \in Writers : wt = EnterWriteTo(w)

SpecWriteTo == InitWriteTo /\ [][NextWriteTo]_vars

\* WriteTo draining a scanner over a reader that does not fail into a writer
\* that does not fail.  WriteTo and the calls of ReadLine it makes run on:
\* nothing in them waits for anything but the next step of the same goroutine.
InitDrain ==
    /\ text \in SeqsUpTo(Runes, MaxDrainLen)
    /\ \E limit \in Widths : s = NewScanner(text, limit)
    /\ pc = "idle"
    /\ lines = <<>>
    /\ ret = NoRet
    /\ wt = EnterWriteTo(NewWriter(FALSE, 0))

SpecDrain == InitDrain /\ [][NextWriteTo]_vars /\ WF_vars(NextWriteTo)

\* ================================================================ claims
\* Helpers of the statements below.
Done == pc = "idle" /\ s.err = EOF

Has(t, ch) == \E i \in DOMAIN t : t[i] = ch

\* The number of non-whitespace runes among the first i runes of t.
NonSpaceUpTo(t, i) == Cardinality({j \in 1..i : ~IsSpace(t[j])})

\* A line without the prefix that was applied to it.
Body(l) == IF l = <<>> THEN l ELSE SubSeq(l, Len(s.prefix) + 1, Len(l))

HasPrefix(l, p) == Len(l) >= Len(p) /\ SubSeq(l, 1, Len(p)) = p

RECURSIVE Concat(_)
Concat(ls) == IF ls = <<>> THEN <<>> ELSE Head(ls) \o Concat(Tail(ls))

RECURSIVE TrimRight(_)
TrimRight(t) ==
    IF t # <<>> /\ IsSpace(t[Len(t)])
    THEN TrimRight(SubSeq(t, 1, Len(t) - 1))
    ELSE t

\* The newline-delimited segments of a text: one more than its newlines.
RECURSIVE Segments(_)
Segments(t) ==
    IF ~Has(t, NL)
    THEN <<t>>
    ELSE LET i == CHOOSE k \in DOMAIN t :
                     t[k] = NL /\ \A j \in 1..(k - 1) : t[j] # NL
         IN <<SubSeq(t, 1, i - 1)>> \o Segments(SubSeq(t, i + 1, Len(t)))

Ceil(n, w) == (n + w - 1) \div w

\* C1 (width bound): every line returned by ReadLine has, once the applied
\* prefix is removed, at most limit runes.
C1_WidthBound ==
    \A i \in DOMAIN lines : Len(Body(lines[i])) <= s.limit

\* C2 (overlong-word splitting): a text that is one run of n >= 1
\* non-whitespace runes, read with the empty prefix and limit w, comes out as
\* ceil(n/w) lines, all but the last of exactly w runes, the last of 1..w
\* runes, and the lines concatenated give the text back.
C2_OverlongWordSplit ==
    (Done /\ s.prefix = <<>> /\ text # <<>>
          /\ \A i \in DOMAIN text : ~IsSpace(text[i]))
    => /\ Len(lines) = Ceil(Len(text), s.limit)
       /\ \A i \in 1..(Len(lines) - 1) : Len(lines[i]) = s.limit
       /\ Len(lines[Len(lines)]) \in 1..s.limit
       /\ Concat(lines) = text

\* C3 (newline preservation): with the empty prefix and no tabs, when each
\* of the k+1 newline-delimited segments of the text fits the limit once its
\* trailing whitespace is removed, the lines returned before EOF are exactly
\* those k+1 trimmed segments.
C3_NewlinePreservation ==
    (Done /\ s.prefix = <<>> /\ ~Has(text, TAB)
          /\ \A i \in DOMAIN Segments(text) :
                Len(TrimRight(Segments(text)[i])) <= s.limit)
    => lines = [i \in DOMAIN Segments(text) |-> TrimRight(Segments(text)[i])]

\* C4 (trailing-whitespace trimming): every line returned is empty or ends
\* with a non-whitespace rune of the input.
C4_NoTrailingWhitespace ==
    \A i \in DOMAIN lines :
        lines[i] = <<>> \/ lines[i][Len(lines[i])] \in WordRunes

\* C4 witness: a word followed by whitespace and then a newline or the end
\* of the text has been returned as a line.
C4_Witness ==
    /\ Done
    /\ \E i \in 1..(Len(text) - 1) :
         /\ ~IsSpace(text[i])
         /\ text[i + 1] \in {SP, TAB}
         /\ (i + 1 = Len(text) \/ text[i + 2] = NL)
    /\ \E i \in DOMAIN lines : lines[i] # <<>>

\* C5 (prefix application): with a prefix configured, every line returned is
\* empty or is the prefix, exactly once and at its start, followed by content
\* with at least one non-whitespace rune.
C5_PrefixApplied ==
    s.prefix # <<>> =>
      \A i \in DOMAIN lines :
        \/ lines[i] = <<>>
        \/ /\ HasPrefix(lines[i], s.prefix)
           /\ ~Has(Body(lines[i]), PrefixRune)
           /\ \E j \in DOMAIN Body(lines[i]) : ~IsSpace(Body(lines[i])[j])

\* C5 witness: with a prefix configured both an empty line and a line with
\* content after earlier content on the same line have been returned.
C5_Witness ==
    /\ Done
    /\ s.prefix # <<>>
    /\ \E i \in DOMAIN lines : lines[i] = <<>>
    /\ \E i \in DOMAIN lines : Has(lines[i], SP)

\* C6 (prefix not counted against the width): for a text without tabs the
\* lines returned with a prefix are the lines returned for the same text and
\* limit with the empty prefix, each non-empty one with the prefix prepended.
C6_PrefixNotCounted ==
    (Done /\ ~Has(text, TAB))
    => LET base == ReadLines(SetTabWidth(NewScanner(text, s.limit), s.tabWidth))
       IN lines = [i \in DOMAIN base |->
                     IF base[i] = <<>> THEN <<>> ELSE s.prefix \o base[i]]

\* The position in line l of its n-th non-whitespace rune, 0 if it has none.
NonSpacePos(l, n) ==
    IF \E q \in DOMAIN l : ~IsSpace(l[q]) /\ NonSpaceUpTo(l, q) = n
    THEN CHOOSE q \in DOMAIN l : ~IsSpace(l[q]) /\ NonSpaceUpTo(l, q) = n
    ELSE 0

\* C7 (tab alignment): with the empty prefix and a positive tab width, the
\* rune that follows the spaces a tab was expanded to sits at a 0-based column
\* that is a multiple of the tab width.  Stated for texts without newlines
\* that come out as one line, where the rune after a tab of the text is found
\* in the line by counting non-whitespace runes.
C7_TabAlignment ==
    (Done /\ s.prefix = <<>> /\ s.tabWidth > 0 /\ ~Has(text, NL)
          /\ Len(lines) = 1)
    => \A j \in 1..(Len(text) - 1) :
         (text[j] = TAB /\ ~IsSpace(text[j + 1]))
         => LET q == NonSpacePos(lines[1], NonSpaceUpTo(text, j + 1))
            IN (q > 1 /\ lines[1][q - 1] = SP) => (q - 1) % s.tabWidth = 0

\* The length of the word of t that starts at position b.
RECURSIVE WordLen(_, _)
WordLen(t, b) ==
    IF b > Len(t) \/ IsSpace(t[b]) THEN 0 ELSE 1 + WordLen(t, b + 1)

\* The number of non-whitespace runes in the first i lines.
RECURSIVE NonSpaceInLines(_, _)
NonSpaceInLines(ls, i) ==
    IF i = 0 THEN 0
    ELSE NonSpaceInLines(ls, i - 1) + NonSpaceUpTo(ls[i], Len(ls[i]))

\* Word A of the text ends at e, word B starts at b, only spaces between.
Consecutive(t, e, b) ==
    /\ e \in DOMAIN t /\ b \in DOMAIN t /\ e + 1 < b
    /\ ~IsSpace(t[e]) /\ ~IsSpace(t[b])
    /\ \A k \in (e + 1)..(b - 1) : t[k] = SP

\* Line i ends with the word ending at e and the later line j starts with the
\* word that follows it in the text.
BrokenBetween(ls, t, e, i, j) ==
    /\ i \in DOMAIN ls /\ j \in DOMAIN ls /\ i < j
    /\ ls[i] # <<>> /\ ls[j] # <<>>
    /\ NonSpaceInLines(ls, i) = NonSpaceUpTo(t, e)
    /\ NonSpaceInLines(ls, j - 1) = NonSpaceUpTo(t, e)
    /\ ~IsSpace(ls[j][1])

\* C8 (greedy filling): for a text of word runes and spaces with the empty
\* prefix, when word A ends one line and the next word B, s spaces further on,
\* starts a later line, then the line ending in A, the s spaces and B together
\* exceed the limit: a word that fits is never moved to the next line.
C8_GreedyFilling ==
    (Done /\ s.prefix = <<>> /\ ~Has(text, TAB) /\ ~Has(text, NL))
    => \A e, b \in DOMAIN text :
         Consecutive(text, e, b)
         => \A i, j \in DOMAIN lines :
              BrokenBetween(lines, text, e, i, j)
              => Len(lines[i]) + (b - e - 1) + WordLen(text, b) > s.limit

\* C8 witness: a break between two consecutive words was made where the
\* second word misses the line by exactly one rune, next to a text where two
\* words fill a line exactly.
C8_Witness ==
    /\ Done /\ s.prefix = <<>> /\ ~Has(text, TAB) /\ ~Has(text, NL)
    /\ \E e, b \in DOMAIN text :
         /\ Consecutive(text, e, b)
         /\ \E i, j \in DOMAIN lines :
              /\ BrokenBetween(lines, text, e, i, j)
              /\ Len(lines[i]) + (b - e - 1) + WordLen(text, b) = s.limit + 1

\* C9 (at least one line): the first call of ReadLine returns a line with no
\* error, so once a call has returned the lines before EOF are not empty; a
\* text of non-newline whitespace only gives exactly one empty line.
C9_AtLeastOneLine ==
    /\ ret # NoRet => Len(lines) >= 1
    /\ (Done /\ \A i \in DOMAIN text : text[i] \in {SP, TAB})
       => lines = << <<>> >>

\* C9 witness: a text of spaces and tabs longer than the limit has been read
\* to its end.
C9_Witness ==
    /\ Done
    /\ Len(text) > s.limit
    /\ \A i \in DOMAIN text : text[i] \in {SP, TAB}
    /\ lines = << <<>> >>

\* C10 (end-of-input is sticky): when the source is exhausted the call in
\* progress returns what is left with no error and leaves nothing buffered;
\* every call after that returns the empty string with io.EOF without
\* entering the read loop; io.EOF never comes with text.
C10_EOFSticky ==
    [][ /\ (pc = "loop" /\ s.r = <<>>)
           => /\ pc' = "idle" /\ ret'.err = Nil /\ s'.err = EOF
              /\ Count(s'.line) = 0 /\ Count(s'.word) = 0
        /\ (pc = "idle" /\ s.err = EOF)
           => /\ pc' = "idle" /\ s' = s /\ lines' = lines
              /\ ret' = [line |-> <<>>, err |-> EOF]
        /\ ret'.err = EOF => ret'.line = <<>>
      ]_vars

\* C10 witness: after a text of several lines a call has returned io.EOF.
C10_Witness ==
    /\ Done
    /\ ret = [line |-> <<>>, err |-> EOF]
    /\ Len(lines) >= 2
    /\ lines[Len(lines)] # <<>>

\* The pass of the loop that starts in scanner sc meets a failing read, as
\* the rune it reads or as the rune it looks ahead at.
ReadFails(sc) ==
    \/ Head(sc.r) = FailMark
    \/ LET p == scanRune(sc)
       IN /\ p.checks
          /\ pending(p.s) >= sc.limit
          /\ p.s.r # <<>>
          /\ Head(p.s.r) = FailMark

\* C11 (upstream read failure): when a read of the source, the look-ahead
\* included, fails with an error other than io.EOF, the call in progress
\* returns the empty string with that error and no line; every later call
\* returns the empty string with the same error without entering the loop.
C11_ReadFailure ==
    [][ /\ (pc = "loop" /\ s.r # <<>> /\ ReadFails(s))
           => /\ pc' = "idle" /\ s'.err = ErrRead /\ lines' = lines
              /\ ret' = [line |-> <<>>, err |-> ErrRead]
        /\ (pc = "idle" /\ s.err = ErrRead)
           => /\ pc' = "idle" /\ s' = s /\ lines' = lines
              /\ ret' = [line |-> <<>>, err |-> ErrRead]
      ]_vars

\* C11 witness: the look-ahead failed while a word was pending after an
\* earlier line, and the error has been returned.
C11_Witness ==
    /\ pc = "idle" /\ s.err = ErrRead
    /\ ret = [line |-> <<>>, err |-> ErrRead]
    /\ Count(s.word) > 0
    /\ pending(s) >= s.limit
    /\ Len(lines) >= 1

\* Lines joined by single newlines.
RECURSIVE Join(_)
Join(ls) ==
    IF ls = <<>> THEN <<>>
    ELSE IF Len(ls) = 1 THEN ls[1]
    ELSE ls[1] \o <<NL>> \o Join(Tail(ls))

\* C12 (WriteTo equals joined ReadLine output): with a reader and a writer
\* that do not fail, WriteTo writes the lines ReadLine returns before EOF,
\* a single newline before every line after the first and none after the
\* last, and returns the number of bytes written with a nil error.
C12_WriteToJoined ==
    (wt.pc = "done" /\ ~wt.w.fails /\ ~Has(text, FailMark))
    => /\ wt.w.buf =
            Join(ReadLines(SetPrefix(NewScanner(text, s.limit), s.prefix)))
       /\ wt.n = Len(wt.w.buf)
       /\ wt.err = Nil

\* C12 witness: WriteTo has returned after writing several lines, an empty
\* one among them, to a writer that does not fail.
C12_Witness ==
    /\ wt.pc = "done" /\ ~wt.w.fails /\ ~Has(text, FailMark)
    /\ Len(lines) >= 3
    /\ \E i \in 1..(Len(lines) - 1) : lines[i] = <<>>
    /\ lines[Len(lines)] # <<>>

\* C13 (sink write failure): when a write of WriteTo fails, of the separator
\* or of a line, WriteTo returns in that pass with that error and with n the
\* bytes the writer took, the part of the failed write included; a failed
\* separator is the last write made; after the return there is no further
\* call of ReadLine and no further write.
C13_SinkFailure ==
    [][ /\ (wt.pc = "wait" /\ pc = "idle" /\ wt'.w.writes > wt.w.writes
              /\ wt'.w.buf # wt.w.buf \o (IF wt.firstLine THEN <<>> ELSE <<NL>>)
                                      \o ret.line)
           => /\ wt'.pc = "done" /\ wt'.err = ErrWrite
              /\ wt'.n = Len(wt'.w.buf)
              /\ (~wt.firstLine /\ wt.w.room = 0)
                 => wt'.w.writes = wt.w.writes + 1
        /\ wt.pc = "done" => UNCHANGED vars
      ]_vars

\* C13 witness: WriteTo has returned a write error after a line was cut short
\* by the writer, following a separator the writer took.
C13_Witness ==
    /\ wt.pc = "done" /\ wt.err = ErrWrite
    /\ wt.n = MaxRoom
    /\ Has(wt.w.buf, NL)
    /\ Len(ret.line) > 1

\* C14 (prefix changes on the fly): every non-empty line a call of ReadLine
\* returns begins with the prefix of the latest SetPrefix and carries no
\* rune of any other prefix, whatever was pending when the prefix was set;
\* the lines returned before stay as they were.
C14_PrefixOnTheFly ==
    [][ /\ Len(lines') > Len(lines)
           => LET l == lines'[Len(lines')]
                  b == SubSeq(l, Len(s.prefix) + 1, Len(l))
              IN \/ l = <<>>
                 \/ /\ HasPrefix(l, s.prefix)
                    /\ \A i \in DOMAIN b : b[i] \notin PrefixRunes
        /\ Len(lines') >= Len(lines)
        /\ SubSeq(lines', 1, Len(lines)) = lines
      ]_vars

\* C14 witness: a single word was cut at the limit, the prefix was changed
\* while its rest was pending, and the rest came out under the new prefix.
C14_Witness ==
    /\ Done
    /\ \A i \in DOMAIN text : ~IsSpace(text[i])
    /\ \E i \in 1..(Len(lines) - 1) :
         /\ lines[i] # <<>> /\ lines[i][1] = PrefixRune
         /\ lines[i + 1] # <<>> /\ lines[i + 1][1] = OtherPrefixRune

\* The position in the text of the rune that opens line j: the first
\* non-whitespace rune not in the lines before it.
OpensLine(ls, t, j) == NonSpacePos(t, NonSpaceInLines(ls, j - 1) + 1)

\* The whitespace before position b of t reaches back, with no newline in
\* it, to the start of t or to a newline.
FollowsNewlineOrStart(t, b) ==
    \E q \in 1..(b - 1) :
       /\ \A k \in q..(b - 1) : t[k] \in {SP, TAB}
       /\ (q = 1 \/ t[q - 1] = NL)

\* C15 (no orphaned leading whitespace): with the empty prefix a returned
\* line begins with whitespace only when that whitespace directly follows a
\* newline of the text or starts the text; in particular the line after a
\* break forced by the limit never begins with whitespace.
C15_NoOrphanedLeadingWS ==
    s.prefix = <<>> =>
      \A j \in DOMAIN lines :
         (lines[j] # <<>> /\ IsSpace(lines[j][1]))
         => FollowsNewlineOrStart(text, OpensLine(lines, text, j))

\* C15 witness: a line with leading whitespace from the start of the text was
\* cut at the limit where two or more whitespace runes follow, and the next
\* line has been returned.
C15_Witness ==
    /\ Done /\ s.prefix = <<>> /\ ~Has(text, NL)
    /\ Len(lines) >= 2
    /\ lines[1] # <<>> /\ IsSpace(lines[1][1])
    /\ lines[2] # <<>>
    /\ \E i \in 2..(Len(text) - 2) :
         ~IsSpace(text[i]) /\ IsSpace(text[i + 1]) /\ IsSpace(text[i + 2])

\* Word A of the text ends at e, word B starts at b, a non-empty run of
\* spaces and tabs between.
Separated(t, e, b) ==
    /\ e \in DOMAIN t /\ b \in DOMAIN t /\ e + 1 < b
    /\ ~IsSpace(t[e]) /\ ~IsSpace(t[b])
    /\ \A k \in (e + 1)..(b - 1) : t[k] \in {SP, TAB}

\* C16 (interior whitespace preserved, words never joined): with the empty
\* prefix and a positive tab width, two consecutive words of the text with a
\* run of spaces and tabs between them that come out on the same line have
\* at least one space for every rune of the run between them, and exactly
\* the run when it has no tab; they are never adjacent.
C16_InteriorWhitespace ==
    (s.prefix = <<>> /\ s.tabWidth > 0) =>
      \A e, b \in DOMAIN text :
         Separated(text, e, b)
         => \A i \in DOMAIN lines :
              LET before == NonSpaceInLines(lines, i - 1)
                  ne == NonSpaceUpTo(text, e)
              IN (before < ne /\ NonSpaceInLines(lines, i) > ne)
                 => LET qa == NonSpacePos(lines[i], ne - before)
                        qb == NonSpacePos(lines[i], ne - before + 1)
                    IN /\ qb - qa - 1 >= b - e - 1
                       /\ (\A k \in (e + 1)..(b - 1) : text[k] = SP)
                          => qb - qa - 1 = b - e - 1

\* C17 (accumulator size): at each evaluation of the width test of ReadLine
\* the rune counts of the line, the pending word and the pending whitespace
\* sum to at most limit + 1.
C17_AccumulatorBound ==
    (pc = "loop" /\ s.r # <<>> /\ scanRune(s).checks)
    => pending(scanRune(s).s) <= s.limit + 1

\* A text with its whitespace deleted.
StripSpace(t) == SelectSeq(t, LAMBDA c : ~IsSpace(c))

\* The runes of the text read so far.
Consumed == SubSeq(text, 1, Len(text) - Len(s.r))

\* C18 (content preservation): with the empty prefix the non-whitespace
\* runes of the lines returned so far, followed by those still held in the
\* line buffer and the pending word, are exactly the non-whitespace runes
\* read so far, in order; after EOF the lines alone give the non-whitespace
\* runes of the text.
C18_ContentPreserved ==
    /\ StripSpace(Concat(lines) \o String(s.line) \o String(s.word))
         = StripSpace(Consumed)
    /\ Done => StripSpace(Concat(lines)) = StripSpace(text)

\* C18 witness: a text of both word runes has come out as three or more
\* lines, one of them the rest of a word cut at the limit.
C18_Witness ==
    /\ Done
    /\ Has(text, "a") /\ Has(text, OtherWordRune)
    /\ Len(lines) >= 3
    /\ \E i \in 1..(Len(text) - 2) :
         /\ \A k \in i..(i + 2) : ~IsSpace(text[k])
         /\ text[i] # text[i + 1]
    /\ s.limit = 2

\* C19 (termination and progress): WriteTo, and so every call of ReadLine it
\* makes, comes to its return; a call of ReadLine that returns a line before
\* the end of the input has read a rune in doing so; the lines returned never
\* outnumber the runes read, plus one for the line returned at io.EOF.
C19_Termination ==
    /\ <>(wt.pc = "done")
    /\ [][ (Len(lines') > Len(lines) /\ s'.err = Nil)
           => Len(s'.r) < Len(s.r) ]_vars
    /\ [](Len(lines) <= Len(Consumed) + (IF s.err = EOF THEN 1 ELSE 0))

\* C19 witness: WriteTo has returned after a text of MaxDrainLen runes was read to
\* its end in several calls of ReadLine.
C19_Witness ==
    /\ wt.pc = "done" /\ wt.err = Nil
    /\ s.err = EOF
    /\ Len(text) = MaxDrainLen
    /\ Len(lines) >= 3

====
